---- MODULE Spec2Model ----
(***************************************************************************)
(* The 3-coloring notebook (examples/3coloring-asp.ipynb).  The notebook   *)
(* builds an answer set program in the string asp_code, cell by cell,      *)
(* hands it to a fresh clingo.Control, grounds it, enumerates all answer   *)
(* sets through the on_model callback and prints a verdict.                *)
(*                                                                         *)
(* The program text is a sequence of statements (one per source line).     *)
(* control.add parses the statements into rules, control.ground            *)
(* instantiates them over the constants of the program, and control.solve  *)
(* enumerates the stable models (Gelfond-Lifschitz) of the ground program. *)
(***************************************************************************)
EXTENDS Integers, Sequences, FiniteSets, TLC

VARIABLES notebook,   \* source of the four appending cells
          pc,         \* next statement of the notebook to execute
          asp_code,   \* the accumulated program text
          control,    \* the clingo.Control object
          queue,      \* answer sets the engine has still to deliver
          delivered,  \* models handed to on_model during this solve call
          answer,     \* the SolveResult returned by control.solve
          output,     \* stdout of the last cell, line by line
          run,        \* number of the current run of the notebook
          prevModels  \* the model lines printed by the previous run, as a set

vars == <<notebook, pc, asp_code, control, queue, delivered, answer, output,
          run, prevModels>>

MaxRuns == 2

(***************************************************************************)
(* The four fragments, as the statements of the source cells.              *)
(***************************************************************************)
\* the facts with the edge v3-v4 forgotten
FactsFragmentMissingEdge ==
    << "vertex(v1).", "vertex(v2).", "vertex(v3).", "vertex(v4).",
       "edge(v1,v2).", "edge(v1,v3).", "edge(v2,v3).", "edge(v2,v4)." >>

\* the facts with the vertex v4 forgotten
FactsFragmentMissingVertex ==
    << "vertex(v1).", "vertex(v2).", "vertex(v3).",
       "edge(v1,v2).", "edge(v1,v3).", "edge(v2,v3).", "edge(v2,v4).",
       "edge(v3,v4)." >>

\* the facts with all edges forgotten
FactsFragmentNoEdges ==
    << "vertex(v1).", "vertex(v2).", "vertex(v3).", "vertex(v4)." >>

FactsFragment ==
    << "vertex(v1).", "vertex(v2).", "vertex(v3).", "vertex(v4).",
       "edge(v1,v2).", "edge(v1,v3).", "edge(v2,v3).", "edge(v2,v4).",
       "edge(v3,v4)." >>

GuessFragment ==
    << "color(V,1) :- vertex(V), not color(V,2), not color(V,3).",
       "color(V,2) :- vertex(V), not color(V,1), not color(V,3).",
       "color(V,3) :- vertex(V), not color(V,1), not color(V,2)." >>

\* the check cell contributes nothing
CheckFragmentMissing == <<>>

CheckFragment ==
    << ":- edge(V1,V2), color(V1,C), color(V2,C)." >>

ShowFragment ==
    << "#show color/2." >>

Notebook ==
    [facts |-> FactsFragment, guess |-> GuessFragment,
     check |-> CheckFragment, show |-> ShowFragment]

(***************************************************************************)
(* Parsing.  An atom is the tuple <<predicate, arg1, ..., argn>>; a rule   *)
(* has a head (<<>> for an integrity constraint), a positive body and a    *)
(* negative body.  Terms starting with an upper-case letter are variables. *)
(***************************************************************************)
Variables == {"V", "V1", "V2", "C"}

Rule(h, p, n) == [head |-> h, pos |-> p, neg |-> n]

Fact(a) == Rule(a, {}, {})

GuessRule(c, d, e) ==
    Rule(<<"color", "V", c>>, {<<"vertex", "V">>},
         {<<"color", "V", d>>, <<"color", "V", e>>})

ParseRule(s) ==
    CASE s = "vertex(v1)." -> {Fact(<<"vertex", "v1">>)}
      [] s = "vertex(v2)." -> {Fact(<<"vertex", "v2">>)}
      [] s = "vertex(v3)." -> {Fact(<<"vertex", "v3">>)}
      [] s = "vertex(v4)." -> {Fact(<<"vertex", "v4">>)}
      [] s = "edge(v1,v2)." -> {Fact(<<"edge", "v1", "v2">>)}
      [] s = "edge(v1,v3)." -> {Fact(<<"edge", "v1", "v3">>)}
      [] s = "edge(v2,v3)." -> {Fact(<<"edge", "v2", "v3">>)}
      [] s = "edge(v2,v4)." -> {Fact(<<"edge", "v2", "v4">>)}
      [] s = "edge(v3,v4)." -> {Fact(<<"edge", "v3", "v4">>)}
      [] s = "edge(v1,v4)." -> {Fact(<<"edge", "v1", "v4">>)}
      [] s = "color(V,1) :- vertex(V), not color(V,2), not color(V,3)."
           -> {GuessRule("1", "2", "3")}
      [] s = "color(V,2) :- vertex(V), not color(V,1), not color(V,3)."
           -> {GuessRule("2", "1", "3")}
      [] s = "color(V,3) :- vertex(V), not color(V,1), not color(V,2)."
           -> {GuessRule("3", "1", "2")}
      [] s = ":- edge(V1,V2), color(V1,C), color(V2,C)."
           -> {Rule(<<>>, {<<"edge", "V1", "V2">>, <<"color", "V1", "C">>,
                           <<"color", "V2", "C">>}, {})}
      [] OTHER -> {}

ParseShow(s) ==
    IF s = "#show color/2." THEN {<<"color", 2>>} ELSE {}

\* control.add("base", [], asp_code): the rules and the #show signatures
Parse(text) ==
    [rules |-> UNION {ParseRule(text[i]) : i \in 1..Len(text)},
     shows |-> UNION {ParseShow(text[i]) : i \in 1..Len(text)}]

(***************************************************************************)
(* Grounding.                                                              *)
(***************************************************************************)
Args(a) == {a[i] : i \in 2..Len(a)}

AtomsOf(r) == (IF r.head = <<>> THEN {} ELSE {r.head}) \cup r.pos \cup r.neg

TermsOf(r) == UNION {Args(a) : a \in AtomsOf(r)}

\* the constants that occur in the program
Universe(rules) == (UNION {TermsOf(r) : r \in rules}) \ Variables

SubstAtom(a, s) ==
    [i \in 1..Len(a) |-> IF i > 1 /\ a[i] \in DOMAIN s THEN s[a[i]] ELSE a[i]]

SubstRule(r, s) ==
    Rule(SubstAtom(r.head, s),
         {SubstAtom(a, s) : a \in r.pos},
         {SubstAtom(a, s) : a \in r.neg})

Instances(r, U) ==
    {SubstRule(r, s) : s \in [TermsOf(r) \cap Variables -> U]}

\* one step of the immediate-consequence operator, negation ignored
RECURSIVE Derivable(_, _)
Derivable(rules, A) ==
    LET B == A \cup {r.head : r \in {q \in rules : q.head # <<>> /\ q.pos \subseteq A}}
    IN  IF B = A THEN A ELSE Derivable(rules, B)

\* control.ground([("base", [])]): the instances whose positive body can hold
Ground(rules) ==
    LET all == UNION {Instances(r, Universe(rules)) : r \in rules}
        possible == Derivable(all, {})
    IN  {r \in all : r.pos \subseteq possible}

(***************************************************************************)
(* Solving: the answer sets of a ground program.                           *)
(***************************************************************************)
\* Gelfond-Lifschitz reduct of the ground program G with respect to I
Reduct(G, I) ==
    {Rule(r.head, r.pos, {}) : r \in {q \in G : q.neg \cap I = {}}}

ViolatesConstraint(G, I) ==
    \E r \in G : r.head = <<>> /\ r.pos \subseteq I /\ r.neg \cap I = {}

IsStable(G, I) ==
    /\ Derivable(Reduct(G, I), {}) = I
    /\ ~ViolatesConstraint(G, I)

\* atoms that hold in every answer set / atoms the search has to decide
Certain(G) == Derivable({r \in G : r.neg = {}}, {})

ChoiceAtoms(G) == Derivable(G, {}) \ Certain(G)

StableModels(G) ==
    {I \in {Certain(G) \cup X : X \in SUBSET ChoiceAtoms(G)} : IsStable(G, I)}

\* sequences without repetition of all elements of S
Orderings(S) ==
    {p \in [1..Cardinality(S) -> S] : \A i, j \in DOMAIN p : p[i] = p[j] => i = j}

\* the order in which the search branches over the atoms color(v,c)
BranchOrder(vp, cp) ==
    [k \in 1..(Len(vp) * Len(cp)) |->
        <<"color", vp[((k - 1) \div Len(cp)) + 1], cp[((k - 1) % Len(cp)) + 1]>>]

\* a search that never explores the false branch
RECURSIVE SearchTrueBranchOnly(_, _)
SearchTrueBranchOnly(S, atoms) ==
    IF S = {} THEN <<>>
    ELSE IF atoms = <<>>
         THEN <<CHOOSE x \in S : TRUE>>
         ELSE SearchTrueBranchOnly({m \in S : Head(atoms) \in m}, Tail(atoms))

\* depth-first enumeration: branch on the first atom, true before false
RECURSIVE Search(_, _)
Search(S, atoms) ==
    IF S = {} THEN <<>>
    ELSE IF atoms = <<>>
         THEN LET m == CHOOSE x \in S : TRUE
              IN  <<m>> \o Search(S \ {m}, atoms)
         ELSE Search({m \in S : Head(atoms) \in m}, Tail(atoms))
              \o Search({m \in S : Head(atoms) \notin m}, Tail(atoms))

\* the SolveResult of a solve call that delivered n models
SolveResult(n, exhausted) ==
    [satisfiable |-> IF n > 0 THEN "True"
                     ELSE IF exhausted THEN "False" ELSE "None",
     exhausted |-> exhausted]

NoAnswer == [satisfiable |-> "None", exhausted |-> FALSE]

\* model.symbols(atoms=True)
SymbolsAll(model, shows) == model

\* model.symbols(shown=True)
Symbols(model, shows) ==
    IF shows = {} THEN model
    ELSE {a \in model : <<a[1], Len(a) - 1>> \in shows}

ModelLine(atoms) == [kind |-> "model", atoms |-> atoms, text |-> ""]

VerdictLine(text) == [kind |-> "verdict", atoms |-> {}, text |-> text]

\* the two messages swapped
VerdictInverted(ans) ==
    IF ans.satisfiable = "True" THEN "The graph is not 3-colorable"
    ELSE "The graph is 3-colorable"

\* a test that treats an unknown result as satisfiable
VerdictNotFalse(ans) ==
    IF ans.satisfiable # "False" THEN "The graph is 3-colorable"
    ELSE "The graph is not 3-colorable"

\* the if/else after the solve call
Verdict(ans) ==
    IF ans.satisfiable = "True" THEN "The graph is 3-colorable"
    ELSE "The graph is not 3-colorable"

\* the solve.models default of a fresh Control
DefaultModels == 1

\* the configuration is left at its default
SolveModelsDefault == DefaultModels

\* the value assigned to control.configuration.solve.models
SolveModels == 0

NoControl == [created |-> FALSE, rules |-> {}, shows |-> {}, ground |-> {},
              models |-> DefaultModels]

(***************************************************************************)
(* The notebook, statement by statement.                                   *)
(***************************************************************************)
InitWith(nb) ==
    /\ notebook = nb
    /\ pc = "cell1"
    /\ asp_code = <<>>
    /\ control = NoControl
    /\ queue = <<>>
    /\ delivered = <<>>
    /\ answer = NoAnswer
    /\ output = <<>>
    /\ run = 1
    /\ prevModels = {}

Init == InitWith(Notebook)

\* asp_code = ""
Cell1 ==
    /\ pc = "cell1"
    /\ asp_code' = <<>>
    /\ pc' = "cell2"
    /\ UNCHANGED <<notebook, control, queue, delivered, answer, output, run, prevModels>>

\* asp_code = fragment
AppendCellOverwrite(at, fragment, next) ==
    /\ pc = at
    /\ asp_code' = fragment
    /\ pc' = next
    /\ UNCHANGED <<notebook, control, queue, delivered, answer, output, run, prevModels>>

\* asp_code += fragment
AppendCell(at, fragment, next) ==
    /\ pc = at
    /\ asp_code' = asp_code \o fragment
    /\ pc' = next
    /\ UNCHANGED <<notebook, control, queue, delivered, answer, output, run, prevModels>>

AppendFacts == AppendCell("cell2", notebook.facts, "cell3")

AppendGuess == AppendCell("cell3", notebook.guess, "cell4")

AppendCheck == AppendCell("cell4", notebook.check, "cell5")

AppendShow == AppendCell("cell5", notebook.show, "control")

\* control = clingo.Control()
NewControl ==
    /\ pc = "control"
    /\ control' = [NoControl EXCEPT !.created = TRUE]
    /\ pc' = "add"
    /\ UNCHANGED <<notebook, asp_code, queue, delivered, answer, output, run, prevModels>>

\* control.add("base", [], asp_code)
Add ==
    /\ pc = "add"
    /\ control' = [control EXCEPT !.rules = Parse(asp_code).rules,
                                  !.shows = Parse(asp_code).shows]
    /\ pc' = "ground"
    /\ UNCHANGED <<notebook, asp_code, queue, delivered, answer, output, run, prevModels>>

\* control.ground([("base", [])])
GroundBase ==
    /\ pc = "ground"
    /\ control' = [control EXCEPT !.ground = Ground(control.rules)]
    /\ pc' = "config"
    /\ UNCHANGED <<notebook, asp_code, queue, delivered, answer, output, run, prevModels>>

\* control.configuration.solve.models = 0
ConfigModels ==
    /\ pc = "config"
    /\ control' = [control EXCEPT !.models = SolveModels]
    /\ pc' = "solve"
    /\ UNCHANGED <<notebook, asp_code, queue, delivered, answer, output, run, prevModels>>

\* control.solve(on_model=on_model) is entered; the enumeration order is the
\* engine's choice
SolveCall ==
    /\ pc = "solve"
    /\ \E S \in {StableModels(control.ground)}, C \in {ChoiceAtoms(control.ground)} :
          \E vp \in Orderings({a[2] : a \in C}), cp \in Orderings({a[3] : a \in C}) :
             queue' = Search(S, BranchOrder(vp, cp))
    /\ delivered' = <<>>
    /\ pc' = "solving"
    /\ UNCHANGED <<notebook, asp_code, control, answer, output, run, prevModels>>

MoreModels ==
    /\ queue # <<>>
    /\ control.models = 0 \/ Len(delivered) < control.models

\* the engine finds the next model and calls on_model, which prints it
OnModel ==
    /\ pc = "solving"
    /\ MoreModels
    /\ delivered' = Append(delivered, Head(queue))
    /\ output' = Append(output, ModelLine(Symbols(Head(queue), control.shows)))
    /\ queue' = Tail(queue)
    /\ UNCHANGED <<notebook, pc, asp_code, control, answer, run, prevModels>>

\* control.solve returns
SolveReturn ==
    /\ pc = "solving"
    /\ ~MoreModels
    /\ answer' = SolveResult(Len(delivered), queue = <<>>)
    /\ pc' = "verdict"
    /\ UNCHANGED <<notebook, asp_code, control, queue, delivered, output, run, prevModels>>

\* if answer.satisfiable == True: print(...) else: print(...)
PrintVerdict ==
    /\ pc = "verdict"
    /\ output' = Append(output, VerdictLine(Verdict(answer)))
    /\ pc' = "done"
    /\ UNCHANGED <<notebook, asp_code, control, queue, delivered, answer, run, prevModels>>

ModelLines(out) == {out[i].atoms : i \in {j \in 1..Len(out) : out[j].kind = "model"}}

\* all cells are run again: the kernel keeps its variables, the cell output
\* is cleared
Rerun ==
    /\ pc = "done"
    /\ run < MaxRuns
    /\ run' = run + 1
    /\ prevModels' = ModelLines(output)
    /\ output' = <<>>
    /\ pc' = "cell1"
    /\ UNCHANGED <<notebook, asp_code, control, queue, delivered, answer>>

\* the solve call is stopped before the search is exhausted
Interrupt ==
    /\ pc = "solving"
    /\ answer' = SolveResult(Len(delivered), FALSE)
    /\ pc' = "verdict"
    /\ UNCHANGED <<notebook, asp_code, control, queue, delivered, output, run, prevModels>>

Step ==
    \/ Cell1
    \/ AppendFacts
    \/ AppendGuess
    \/ AppendCheck
    \/ AppendShow
    \/ NewControl
    \/ Add
    \/ GroundBase
    \/ ConfigModels
    \/ SolveCall
    \/ OnModel
    \/ SolveReturn
    \/ PrintVerdict

Next ==
    \/ Step
    \/ Rerun

Spec == Init /\ [][Next]_vars

\* the notebook with the check cell left out
InitOmit == InitWith([Notebook EXCEPT !.check = <<>>])

SpecOmit == InitOmit /\ [][Step]_vars

\* the example graph with the edge v1-v4 added is the complete graph K4
CompleteGraphFacts == FactsFragment \o << "edge(v1,v4)." >>

InitOutcome ==
    \E f \in {FactsFragment, CompleteGraphFacts} :
        InitWith([Notebook EXCEPT !.facts = f])

NextOutcome ==
    \/ Step
    \/ Interrupt

SpecOutcome == InitOutcome /\ [][NextOutcome]_vars

(***************************************************************************)
(* The example graph and its proper 3-colorings.                           *)
(***************************************************************************)
Vertices == {"v1", "v2", "v3", "v4"}

Edges == {<<"v1", "v2">>, <<"v1", "v3">>, <<"v2", "v3">>, <<"v2", "v4">>,
          <<"v3", "v4">>}

Colors == {"1", "2", "3"}

Range(f) == {f[i] : i \in DOMAIN f}

ColorsOf(m, v) == {a[3] : a \in {b \in m : b[1] = "color" /\ b[2] = v}}

EdgesOf(m) == {<<a[2], a[3]>> : a \in {b \in m : b[1] = "edge"}}

SharesColor(m, e) == ColorsOf(m, e[1]) \cap ColorsOf(m, e[2]) # {}

ProperColorings ==
    {mu \in [Vertices -> Colors] : \A e \in Edges : mu[e[1]] # mu[e[2]]}

ColoringAtoms(mu) == {<<"color", v, mu[v]>> : v \in Vertices}

InputFacts ==
    {<<"vertex", v>> : v \in Vertices} \cup {<<"edge", e[1], e[2]>> : e \in Edges}

Colorable == "The graph is 3-colorable"

NotColorable == "The graph is not 3-colorable"

VerdictLines(out) == {i \in 1..Len(out) : out[i].kind = "verdict"}

Finished == pc \in {"verdict", "done"}

IsPrefix(s, t) == Len(s) <= Len(t) /\ \A i \in 1..Len(s) : s[i] = t[i]

\* C1: in every model delivered to on_model, the two endpoints of every edge
\* of the example graph have no color in common.
EdgesProperlyColored ==
    \A i \in 1..Len(delivered) :
        /\ Edges \subseteq EdgesOf(delivered[i])
        /\ \A e \in Edges : ~SharesColor(delivered[i], e)

EdgesProperlyColoredWitness ==
    /\ pc = "solving"
    /\ Len(delivered) = 3
    /\ \A i \in 1..3 : ColorsOf(delivered[i], "v1") # ColorsOf(delivered[i], "v2")

\* C2: in every model delivered to on_model, every vertex has exactly one
\* atom color(v,c), and that c is one of 1, 2, 3.
ExactlyOneColor ==
    \A i \in 1..Len(delivered) :
        /\ \A v \in Vertices :
              /\ Cardinality(ColorsOf(delivered[i], v)) = 1
              /\ ColorsOf(delivered[i], v) \subseteq Colors
        /\ {a[2] : a \in {b \in delivered[i] : b[1] = "color"}} \subseteq Vertices

ExactlyOneColorWitness ==
    /\ Len(delivered) >= 1
    /\ \A v \in Vertices : Cardinality(ColorsOf(delivered[1], v)) = 1
    /\ ColorsOf(delivered[1], "v4") = {"2"}

\* C3: with the model limit 0, when the solve call has returned the number of
\* distinct models delivered to on_model is exactly 6 (and none twice).
SixModels ==
    Finished =>
        /\ control.models = 0
        /\ Cardinality(Range(delivered)) = 6
        /\ Len(delivered) = 6
        /\ Cardinality(ModelLines(output)) = 6

SixModelsWitness ==
    /\ pc = "verdict"
    /\ control.models = 0
    /\ Len(delivered) = 6

\* C4: the run ends with the line "The graph is 3-colorable", printed because
\* a model was found, and never prints the "not 3-colorable" line.
VerdictIsColorable ==
    /\ \A i \in 1..Len(output) : output[i].text # NotColorable
    /\ pc = "done" =>
          /\ output[Len(output)] = VerdictLine(Colorable)
          /\ Len(delivered) >= 1
          /\ answer.satisfiable = "True"

VerdictIsColorableWitness ==
    /\ pc = "done"
    /\ run = 1
    /\ output[Len(output)].text = Colorable

\* C5: a second run of the same program text in a new Control prints the same
\* set of 6 models as the run before it, whatever the enumeration orders.
RerunSameModels ==
    (run > 1 /\ pc = "done") =>
        /\ ModelLines(output) = prevModels
        /\ Cardinality(prevModels) = 6

RerunSameModelsWitness ==
    /\ run = 2
    /\ pc = "done"
    /\ Cardinality(prevModels) = 6
    /\ output[1].atoms = ColoringAtoms([v \in Vertices |->
           IF v = "v2" THEN "1" ELSE IF v = "v3" THEN "2" ELSE "3"])

\* C6: without the constraint fragment, when the solve call has returned at
\* least one delivered model gives both endpoints of some edge the same color.
OmittedCheckEmitsImproper ==
    Finished =>
        \E i \in 1..Len(delivered) :
            \E e \in EdgesOf(delivered[i]) : SharesColor(delivered[i], e)

OmittedCheckEmitsImproperWitness ==
    /\ pc = "done"
    /\ notebook.check = <<>>
    /\ \E i \in 1..Len(delivered) : SharesColor(delivered[i], <<"v3", "v4">>)

\* C7: every printed model line holds only atoms of color/2, although every
\* delivered model contains the vertex/1 and edge/2 facts.
OnlyColorShown ==
    /\ \A i \in 1..Len(output) :
          \A a \in output[i].atoms : a[1] = "color" /\ Len(a) = 3
    /\ \A i \in 1..Len(delivered) : InputFacts \subseteq delivered[i]

OnlyColorShownWitness ==
    /\ pc = "solving"
    /\ Len(output) = 2
    /\ output[2].atoms # {}
    /\ InputFacts \subseteq delivered[2]

\* C8: the printed models are always proper 3-colorings of the example graph,
\* and when the solve call has returned they are all of them.
AllProperColorings ==
    /\ ModelLines(output) \subseteq {ColoringAtoms(mu) : mu \in ProperColorings}
    /\ Finished => ModelLines(output) = {ColoringAtoms(mu) : mu \in ProperColorings}

AllProperColoringsWitness ==
    /\ Finished
    /\ ModelLines(output) = {ColoringAtoms(mu) : mu \in ProperColorings}
    /\ Cardinality(ProperColorings) = 6

\* C9: the fragments are appended in the order facts, guess, check, show, each
\* append extending the text; no model line is printed before the whole text
\* is built and grounded; the one verdict line comes last.
TextAt(p) ==
    CASE p = "cell2" -> <<>>
      [] p = "cell3" -> FactsFragment
      [] p = "cell4" -> FactsFragment \o GuessFragment
      [] p = "cell5" -> FactsFragment \o GuessFragment \o CheckFragment
      [] OTHER -> FactsFragment \o GuessFragment \o CheckFragment \o ShowFragment

SequentialState ==
    /\ pc # "cell1" => asp_code = TextAt(pc)
    /\ output # <<>> =>
          /\ pc \in {"solving", "verdict", "done"}
          /\ asp_code = TextAt("done")
          /\ control.rules = Parse(asp_code).rules
          /\ control.ground # {}
    /\ \A i \in VerdictLines(output) : i = Len(output) /\ pc = "done"
    /\ pc = "done" => Cardinality(VerdictLines(output)) = 1

SequentialStep ==
    /\ pc # "cell1" => IsPrefix(asp_code, asp_code')
    /\ run' = run => IsPrefix(output, output')

SequentialRun == [](SequentialState) /\ [][SequentialStep]_vars

SequentialRunWitness ==
    /\ pc = "done"
    /\ Len(output) = 7
    /\ VerdictLines(output) = {7}
    /\ asp_code = TextAt("done")

\* C10: whatever the solve call returns, one verdict line is printed: the
\* 3-colorable message exactly when satisfiable is true, which is exactly when
\* a model was delivered, and the not-3-colorable message otherwise.
VerdictMatchesOutcome ==
    /\ Cardinality(VerdictLines(output)) <= 1
    /\ pc = "done" =>
          /\ VerdictLines(output) = {Len(output)}
          /\ output[Len(output)].text \in {Colorable, NotColorable}
          /\ output[Len(output)].text = Colorable <=> answer.satisfiable = "True"
          /\ output[Len(output)].text = Colorable <=> Len(delivered) >= 1
          /\ answer.satisfiable \in {"False", "None"}
                => output[Len(output)].text = NotColorable

VerdictMatchesOutcomeWitness ==
    /\ pc = "done"
    /\ answer.satisfiable = "None"
    /\ output[Len(output)].text = NotColorable

====
